---------------------------- MODULE Spec2Model ----------------------------
(***************************************************************************)
(* State-machine model of the study session, the progress tracking and    *)
(* the audio playback queue of the flashcard client,                       *)
(* src/frontend/src/App.jsx (first copy in the file: component App, lines  *)
(* 6-367, StudyView, lines 471-575, and AudioView, lines 577-759).         *)
(*                                                                         *)
(* React state is one variable per useState cell.  Every handler is one    *)
(* action: the state updates a handler makes are batched into one render.  *)
(* A value a callback reads from its closure (and not through a functional *)
(* updater) is the value of the render that created the callback, so the   *)
(* model keeps what the memoised handleSwipe captured.                     *)
(***************************************************************************)
EXTENDS Integers, Sequences, FiniteSets, TLC

\* ------------------------------------------------------------------ bounds
NumCards == 2        \* size of the card corpus, ids 1..NumCards
MaxSwipes == 2       \* committed swipes (timers scheduled) in one run
MaxStarts == 2       \* invocations of startStudy in one run
ExamSize == 1        \* cards in an exam sample (20 in the application)

\* ------------------------------------------------------- program constants
threshold == 100     \* handleTouchEnd: const threshold = 100

Ids == 1..NumCards
Modes == {"sequential", "random", "unknown_sequential", "unknown_random", "exam"}
\* the modes the model starts sessions with: between them they produce every
\* card sequence, with and without exam scoring, that the five modes produce
\* for ascending and shuffled orders
StartModes == {"sequential", "unknown_random", "exam"}
Directions == {"left", "right"}
\* clientX samples used for touches: offsets 0, 99, 100, 101 and their negatives
Coords == {0, 1, 100, 101}

VARIABLES
  currentView,     \* useState('home')
  selectedMode,    \* useState(null); "none" models null
  cards,           \* useState([]): sequence of card ids
  currentIndex,    \* useState(0)
  progress,        \* useState({known: [], unknown: []})
  stats,           \* useState(null)
  swipeDirection,  \* useState(null); "none" models null
  isExamMode,      \* useState(false)
  examResults,     \* useState(null)
  dragX,           \* useState(0)
  touchStartX,     \* useRef(0)
  touchCurrentX,   \* useRef(0)
  memoProgress,    \* the progress captured by the memoised handleSwipe
  timers,          \* pending setTimeout callbacks of handleSwipe, oldest first
  persists,        \* POST /progress requests in flight
  cardFetches,     \* GET /cards requests in flight
  progressFetches, \* number of GET /progress requests on their way to the backend
  progressAnswers, \* answers of GET /progress on their way back, in order of reading
  statsFetches,    \* number of GET /stats requests in flight
  srvKnown,        \* backend: ids stored as known for the acting identity
  srvUnknown,      \* backend: ids stored as unknown for the acting identity
  nSwipes,         \* history: number of committed swipes
  sessionHist,     \* history: the mode the held cards were requested with, and
                   \* whether a swipe was committed since they arrived
  nStarts,         \* history: number of startStudy invocations
  touching,        \* environment: a finger is down on the card container
  ev,              \* history: the handler that ran last
  resetFetches,    \* number of DELETE /progress/reset requests in flight
  audioCards,      \* useState([]): the cards of GET /audio/cards
  isAudioLoading,  \* useState(false)
  audioError,      \* useState(''); TRUE models the non-empty message
  audioFetches,    \* number of GET /audio/cards requests in flight
  audioLatest,     \* history: the most recently issued of them: "none",
                   \* "pending", "ok" or "failed"
  audioCurrentIndex, \* AudioView: useState(0), its currentIndex
  currentSource,   \* AudioView: useState(''); 0 models ''
  playMode,        \* AudioView: useState('single')
  shuffleQueue,    \* AudioView: useState([])
  shufflePosition, \* AudioView: useState(-1)
  nShuffles,       \* history: number of presses of the shuffle button
  audioPlaying,    \* environment: the <audio> element is playing
  cleanupAudio,    \* AudioView: the mount effect captured the <audio> element
  user,            \* useState({ id: 'anonymous', username: 'Guest' })
  showLoginPrompt, \* useState(false)
  tgUser,          \* environment: TelegramWebApp?.initDataUnsafe?.user
  authFetches      \* number of POST /auth/telegram requests in flight

vars == <<currentView, selectedMode, cards, currentIndex, progress, stats,
          swipeDirection, isExamMode, examResults, dragX, touchStartX,
          touchCurrentX, memoProgress, timers, persists, cardFetches,
          progressFetches, progressAnswers, statsFetches, srvKnown, srvUnknown,
          nSwipes, sessionHist, nStarts, touching, ev, resetFetches, audioCards,
          isAudioLoading, audioError, audioFetches, audioLatest,
          audioCurrentIndex,
          currentSource, playMode, shuffleQueue, shufflePosition, nShuffles,
          audioPlaying, cleanupAudio, user, showLoginPrompt, tgUser,
          authFetches>>

\* ----------------------------------------------------------------- helpers
NoTotal == 0 - 1     \* total_known / total_unknown absent from the object

Range(s) == {s[i] : i \in 1..Len(s)}

\* Array.prototype.includes
Includes(s, x) == \E i \in 1..Len(s) : s[i] = x

\* Array.prototype.filter(id => id !== x)
RECURSIVE FilterOut(_, _)
FilterOut(s, x) ==
  IF s = <<>> THEN <<>>
  ELSE IF Head(s) = x THEN FilterOut(Tail(s), x)
       ELSE <<Head(s)>> \o FilterOut(Tail(s), x)

\* [...new Set(s)]: first occurrences, in insertion order
RECURSIVE Dedup(_)
Dedup(s) ==
  IF s = <<>> THEN <<>>
  ELSE <<Head(s)>> \o FilterOut(Dedup(Tail(s)), Head(s))

\* ascending sequence of a set of integers
RECURSIVE SortedSeq(_)
SortedSeq(S) ==
  IF S = {} THEN <<>>
  ELSE LET m == CHOOSE x \in S : \A y \in S : x <= y
       IN <<m>> \o SortedSeq(S \ {m})

\* all orderings of a set
RECURSIVE Perms(_)
Perms(S) ==
  IF S = {} THEN {<<>>}
  ELSE UNION {{<<x>> \o p : p \in Perms(S \ {x})} : x \in S}

RemoveAt(s, i) == SubSeq(s, 1, i - 1) \o SubSeq(s, i + 1, Len(s))

\* value of ev after a handler no property refers to
Quiet == [op |-> "-"]

NoStats == [present |-> FALSE, total_cards |-> 0, known |-> 0, unknown |-> 0,
            not_started |-> 0]

\* no cards have arrived yet
NoSession == [mode |-> "none", swiped |-> FALSE]

\* an exam result that exists before any classification, with both counters 0
ZeroedExamResults == [present |-> TRUE, correct |-> 0, incorrect |-> 0,
                      details |-> <<>>]

\* useState(null) and setExamResults(null): no exam result
NoExamResults == [present |-> FALSE, correct |-> 0, incorrect |-> 0,
                  details |-> <<>>]

\* ------------------------------------------------------------------ render
\* const isComplete = currentIndex >= cards.length
isComplete == currentIndex >= Len(cards)

\* StudyView shows the card and its buttons: not complete and a card exists
CardShown == currentView = "study" /\ ~isComplete

\* useCallback(..., [currentIndex, cards, isExamMode]): the callback, and with
\* it the updateCardProgress and progress it closes over, is re-created only
\* in a render where one of the three changed (cards by identity).
Memo(cardsReplaced) ==
  IF cardsReplaced \/ currentIndex' # currentIndex \/ isExamMode' # isExamMode
  THEN progress'
  ELSE memoProgress

\* ----------------------------------------------------------------- backend
\* GET /progress: the stored sets with their totals
ServerProgress ==
  [known |-> SortedSeq(srvKnown), unknown |-> SortedSeq(srvUnknown),
   total_known |-> Cardinality(srvKnown),
   total_unknown |-> Cardinality(srvUnknown)]

\* GET /stats: known + unknown + not_started = total_cards
ServerStats ==
  [present |-> TRUE, total_cards |-> NumCards,
   known |-> Cardinality(srvKnown), unknown |-> Cardinality(srvUnknown),
   not_started |-> NumCards - Cardinality(srvKnown \cup srvUnknown)]

\* the samples of n cards of the corpus (all of it when it holds fewer)
Samples(n) ==
  {S \in SUBSET Ids : Cardinality(S) = IF n < NumCards THEN n ELSE NumCards}

\* GET /cards: the sequences the selector may return for a request
SelectCards(mode, unknownIds) ==
  CASE mode = "sequential" -> {SortedSeq(Ids)}
    [] mode = "random" -> Perms(Ids)
    [] mode = "unknown_sequential" -> {SortedSeq(Range(unknownIds) \cap Ids)}
    [] mode = "unknown_random" -> Perms(Range(unknownIds) \cap Ids)
    [] mode = "exam" -> UNION {Perms(S) : S \in Samples(ExamSize)}

\* what the backend holds for the acting identity when the page is opened
InitialStores ==
  {[known |-> {}, unknown |-> {}], [known |-> {1}, unknown |-> {NumCards}]}

\* -------------------------------------------------------------------- Init
\* no Telegram user and no X-Telegram-User header
NoTelegram == 0
\* the id of the Telegram user when the page runs inside Telegram
TgId == 1

Anonymous == [id |-> "anonymous", telegram_id |-> NoTelegram]

\* The state after construction and the mount effects, but for the
\* environment the page runs in.
PageOpened ==
  /\ user = Anonymous
  /\ authFetches = 0
  /\ currentView = "home"
  /\ selectedMode = "none"
  /\ cards = <<>>
  /\ currentIndex = 0
  /\ progress = [known |-> <<>>, unknown |-> <<>>, total_known |-> NoTotal,
                 total_unknown |-> NoTotal]
  /\ stats = NoStats
  /\ swipeDirection = "none"
  /\ isExamMode = FALSE
  /\ examResults = NoExamResults
  /\ dragX = 0
  /\ touchStartX = 0
  /\ touchCurrentX = 0
  /\ memoProgress = progress
  /\ timers = <<>>
  /\ persists = <<>>
  /\ cardFetches = <<>>
  /\ progressFetches = 2
  /\ progressAnswers = <<>>
  /\ statsFetches = 2
  /\ \E st \in InitialStores : srvKnown = st.known /\ srvUnknown = st.unknown
  /\ nSwipes = 0
  /\ sessionHist = NoSession
  /\ nStarts = 0
  /\ touching = FALSE
  /\ ev = Quiet
  /\ resetFetches = 0
  /\ audioCards = <<>>
  /\ isAudioLoading = FALSE
  /\ audioError = FALSE
  /\ audioFetches = 0
  /\ audioLatest = "none"
  /\ audioCurrentIndex = 0
  /\ currentSource = 0
  /\ playMode = "single"
  /\ shuffleQueue = <<>>
  /\ shufflePosition = 0 - 1
  /\ nShuffles = 0
  /\ audioPlaying = FALSE
  /\ cleanupAudio = FALSE

\* the page opened in a browser, outside Telegram
Init ==
  /\ PageOpened
  /\ tgUser = NoTelegram
  /\ showLoginPrompt = FALSE

\* the page opened in a browser or inside Telegram; the mount effect shows
\* the login prompt when there is a Telegram user
InitAuth ==
  /\ PageOpened
  /\ tgUser \in {NoTelegram, TgId}
  /\ showLoginPrompt = (tgUser # NoTelegram)

\* ----------------------------------------------------------------- session
authVars == <<user, showLoginPrompt, tgUser, authFetches>>
sessionVars == <<currentView, selectedMode, cards, currentIndex, isExamMode,
                 examResults>>
touchVars == <<dragX, touchStartX, touchCurrentX, touching>>
localVars == <<progress, stats>>
serverVars == <<srvKnown, srvUnknown>>
fetchVars == <<cardFetches, progressFetches, progressAnswers, statsFetches>>
\* App state of the audio list, and the state of one AudioView instance
audioListVars == <<audioCards, isAudioLoading, audioError, audioFetches,
                   audioLatest>>
playerVars == <<audioCurrentIndex, currentSource, playMode, shuffleQueue,
                shufflePosition>>
elementVars == <<audioPlaying, cleanupAudio>>
audioVars == <<audioListVars, playerVars, nShuffles, elementVars>>
\* what the handlers of the audio view and of the statistics view leave alone
studyVars == <<selectedMode, cards, currentIndex, isExamMode, examResults,
               swipeDirection, memoProgress, timers, persists, fetchVars,
               nSwipes, sessionHist, nStarts, touchVars, localVars, serverVars,
               resetFetches, authVars>>

\* startStudy(mode), up to the await of the card fetch
startStudy(mode) ==
  /\ nStarts < MaxStarts
  /\ nStarts' = nStarts + 1
  /\ selectedMode' = mode
  /\ isExamMode' = (mode = "exam")
  /\ cardFetches' = Append(cardFetches,
                           [mode |-> mode, unknown_ids |-> progress.unknown])
  /\ ev' = Quiet
  /\ UNCHANGED <<currentView, cards, currentIndex, examResults, swipeDirection,
                 timers, persists, progressFetches, progressAnswers, statsFetches, nSwipes, sessionHist, touchVars, localVars, serverVars>>
  /\ UNCHANGED <<audioVars, resetFetches, authVars>>
  /\ memoProgress' = Memo(FALSE)

\* HomeView: onClick={() => onStartStudy(mode.id)}
StartFromHome(mode) ==
  /\ currentView = "home"
  /\ startStudy(mode)

\* StudyView, completion screen: onRestart={() => startStudy(selectedMode)}
Restart ==
  /\ currentView = "study"
  /\ isComplete
  /\ startStudy(selectedMode)

\* startStudy after the await: the response of GET /cards
CardsResolve(i, ok) ==
  /\ i \in 1..Len(cardFetches)
  /\ cardFetches' = RemoveAt(cardFetches, i)
  /\ IF ok
     THEN /\ cards' \in SelectCards(cardFetches[i].mode,
                                    cardFetches[i].unknown_ids)
          /\ currentIndex' = 0
          /\ examResults' = NoExamResults
          /\ currentView' = "study"
          /\ sessionHist' = [mode |-> cardFetches[i].mode, swiped |-> FALSE]
     ELSE UNCHANGED <<cards, currentIndex, examResults, currentView,
                      sessionHist>>
  /\ ev' = Quiet
  /\ UNCHANGED <<selectedMode, isExamMode, swipeDirection, timers, persists,
                 progressFetches, progressAnswers, statsFetches, nSwipes, nStarts,
                 touchVars, localVars, serverVars>>
  /\ UNCHANGED <<audioVars, resetFetches, authVars>>
  /\ memoProgress' = Memo(ok)

\* back() that drops the pending timers
Back_CancelsTimers ==
  /\ currentView = "study"
  /\ currentView' = "home"
  /\ timers' = <<>>
  /\ ev' = Quiet
  /\ UNCHANGED <<selectedMode, cards, currentIndex, isExamMode, examResults,
                 swipeDirection, persists, fetchVars, nSwipes, sessionHist, nStarts,
                 touchVars, localVars, serverVars>>
  /\ UNCHANGED <<audioVars, resetFetches, authVars>>
  /\ memoProgress' = Memo(FALSE)

\* onBack={() => setCurrentView('home')}
Back ==
  /\ currentView = "study"
  /\ currentView' = "home"
  /\ ev' = Quiet
  /\ UNCHANGED <<selectedMode, cards, currentIndex, isExamMode, examResults,
                 swipeDirection, timers, persists, fetchVars, nSwipes, sessionHist, nStarts, touchVars, localVars, serverVars>>
  /\ UNCHANGED <<audioVars, resetFetches, authVars>>
  /\ memoProgress' = Memo(FALSE)

\* ------------------------------------------------------------------- swipe
\* const currentCard = cards[currentIndex]; 0 models undefined
CardAt(i) == IF i < Len(cards) THEN cards[i + 1] ELSE 0

\* StudyView: the branch it renders, if (isComplete) ... if (!card) ... else
StudyScreen ==
  IF isComplete THEN "complete"
  ELSE IF CardAt(currentIndex) = 0 THEN "empty"
  ELSE "card"

\* StudyView, completion screen: {examResults ? ( ... score ... ) : ( ... )}
ScoreShown == currentView = "study" /\ isComplete /\ examResults.present

\* the denominator of the score: examResults.correct + examResults.incorrect
ScoreDenominator == examResults.correct + examResults.incorrect

\* What the setTimeout callback of handleSwipe closes over: the direction,
\* the card, isExamMode and, through updateCardProgress, the progress of the
\* render that created handleSwipe.
SwipeTimer(direction) ==
  [direction |-> direction, card |-> CardAt(currentIndex),
   isExamMode |-> isExamMode, progress |-> memoProgress]

\* handleSwipe with the bounds check off by one
handleSwipe_OffByOne(direction) ==
  IF currentIndex > Len(cards)
  THEN UNCHANGED <<swipeDirection, timers, nSwipes, sessionHist>>
  ELSE /\ nSwipes < MaxSwipes
       /\ nSwipes' = nSwipes + 1
       /\ sessionHist' = [sessionHist EXCEPT !.swiped = TRUE]
       /\ swipeDirection' = direction
       /\ timers' = Append(timers, SwipeTimer(direction))

\* handleSwipe(direction), up to setTimeout
handleSwipe(direction) ==
  IF currentIndex >= Len(cards)
  THEN UNCHANGED <<swipeDirection, timers, nSwipes, sessionHist>>
  ELSE /\ nSwipes < MaxSwipes
       /\ nSwipes' = nSwipes + 1
       /\ sessionHist' = [sessionHist EXCEPT !.swiped = TRUE]
       /\ swipeDirection' = direction
       /\ timers' = Append(timers, SwipeTimer(direction))

\* StudyView buttons: onClick={() => onSwipe('left' | 'right')}
ButtonSwipe(direction) ==
  /\ CardShown
  /\ handleSwipe(direction)
  /\ ev' = IF isComplete THEN [op |-> "swipeAtComplete"] ELSE Quiet
  /\ UNCHANGED <<sessionVars, persists, fetchVars, nStarts,
                 touchVars, localVars, serverVars>>
  /\ UNCHANGED <<audioVars, resetFetches, authVars>>
  /\ memoProgress' = Memo(FALSE)

\* handleKeyDown: ArrowLeft / ArrowRight while the study view is shown
handleKeyDown(direction) ==
  /\ currentView = "study"
  /\ handleSwipe(direction)
  /\ ev' = IF isComplete THEN [op |-> "swipeAtComplete"] ELSE Quiet
  /\ UNCHANGED <<sessionVars, persists, fetchVars, nStarts,
                 touchVars, localVars, serverVars>>
  /\ UNCHANGED <<audioVars, resetFetches, authVars>>
  /\ memoProgress' = Memo(FALSE)

\* History kept in the requests in flight: latest is TRUE while the request
\* carries the most recent classification of its card and the local progress
\* has not been reloaded from the backend since it was dispatched.  A new
\* classification of card id (id = 0: a reload) clears it.
Superseded(reqs, id) ==
  [k \in 1..Len(reqs) |->
     IF id = 0 \/ reqs[k].ruleId = id
     THEN [reqs[k] EXCEPT !.latest = FALSE]
     ELSE reqs[k]]

Status(direction) == IF direction = "right" THEN "known" ELSE "unknown"

\* updateCardProgress(ruleId, status) up to the await: the POST is sent
DispatchPersist(t) ==
  persists' = Append(Superseded(persists, t.card),
                     [ruleId |-> t.card, status |-> Status(t.direction),
                      isExamMode |-> t.isExamMode, progress |-> t.progress,
                      latest |-> TRUE])

\* the timer callback without the exam branch
Classify_AlwaysPersist(t) ==
  /\ DispatchPersist(t)
  /\ UNCHANGED examResults

\* the if (isExamMode) ... else ... of the timer callback of handleSwipe
Classify(t) ==
  IF t.isExamMode
  THEN /\ examResults' =
            [present |-> TRUE,
             correct |-> IF t.direction = "right"
                         THEN examResults.correct + 1
                         ELSE examResults.correct,
             incorrect |-> IF t.direction = "left"
                           THEN examResults.incorrect + 1
                           ELSE examResults.incorrect,
             details |-> Append(examResults.details,
                                [cardId |-> t.card,
                                 known |-> t.direction = "right"])]
       /\ UNCHANGED persists
  ELSE /\ DispatchPersist(t)
       /\ UNCHANGED examResults

\* the setTimeout callback of handleSwipe, 300 ms after the swipe
TimerFire ==
  /\ timers # <<>>
  /\ timers' = Tail(timers)
  /\ Classify(Head(timers))
  /\ ev' = Quiet
  /\ swipeDirection' = "none"
  /\ dragX' = 0
  /\ currentIndex' = currentIndex + 1
  /\ UNCHANGED <<currentView, selectedMode, cards, isExamMode, fetchVars,
                 nSwipes, sessionHist, nStarts, touchStartX, touchCurrentX, touching,
                 localVars, serverVars>>
  /\ UNCHANGED <<audioVars, resetFetches, authVars>>
  /\ memoProgress' = Memo(FALSE)

\* ---------------------------------------------------------------- progress
\* the functional update without the removal from the opposite array
PatchProgress_NoRemoval(prev, ruleId, status) ==
  LET newKnown == IF status = "known"
                  THEN Dedup(Append(prev.known, ruleId))
                  ELSE prev.known
      newUnknown == IF status = "unknown"
                    THEN Dedup(Append(prev.unknown, ruleId))
                    ELSE prev.unknown
  IN [known |-> newKnown, unknown |-> newUnknown,
      total_known |-> Len(newKnown), total_unknown |-> Len(newUnknown)]

\* the functional update with a plain append in place of [...new Set(...)]
PatchProgress_NoDedup(prev, ruleId, status) ==
  LET newKnown == IF status = "known"
                  THEN Append(prev.known, ruleId)
                  ELSE FilterOut(prev.known, ruleId)
      newUnknown == IF status = "unknown"
                    THEN Append(prev.unknown, ruleId)
                    ELSE FilterOut(prev.unknown, ruleId)
  IN [known |-> newKnown, unknown |-> newUnknown,
      total_known |-> Len(newKnown), total_unknown |-> Len(newUnknown)]

\* setProgress(prev => ...) of updateCardProgress
PatchProgress(prev, ruleId, status) ==
  LET newKnown == IF status = "known"
                  THEN Dedup(Append(prev.known, ruleId))
                  ELSE FilterOut(prev.known, ruleId)
      newUnknown == IF status = "unknown"
                    THEN Dedup(Append(prev.unknown, ruleId))
                    ELSE FilterOut(prev.unknown, ruleId)
  IN [known |-> newKnown, unknown |-> newUnknown,
      total_known |-> Len(newKnown), total_unknown |-> Len(newUnknown)]

\* setStats(prev => ...) of updateCardProgress; closure is the progress the
\* calling updateCardProgress closed over
PatchStats(prev, closure, ruleId, status) ==
  IF ~prev.present THEN prev
  ELSE LET isKnownChange == status = "known"
           wasUnknown == Includes(closure.unknown, ruleId)
           wasKnown == Includes(closure.known, ruleId)
       IN [prev EXCEPT
             !.known = @ + (IF isKnownChange /\ ~wasKnown THEN 1 ELSE 0),
             !.unknown = @ + (IF ~isKnownChange /\ ~wasUnknown /\ ~wasKnown
                              THEN 1 ELSE 0),
             !.not_started = @ - (IF ~wasKnown /\ ~wasUnknown THEN 1 ELSE 0)]

\* the backend stores a classification (POST /progress)
ServerStore(ruleId, status) ==
  /\ srvKnown' = IF status = "known" THEN srvKnown \cup {ruleId}
                 ELSE srvKnown \ {ruleId}
  /\ srvUnknown' = IF status = "unknown" THEN srvUnknown \cup {ruleId}
                   ELSE srvUnknown \ {ruleId}

\* updateCardProgress after the await: the response of POST /progress.
\* ok: the backend stored the classification and answered with success;
\* otherwise the request failed (network error or non-success status).
PersistResolve(i, ok) ==
  /\ i \in 1..Len(persists)
  /\ persists' = RemoveAt(persists, i)
  /\ LET r == persists[i] IN
       /\ IF ok
          THEN ServerStore(r.ruleId, r.status)
          ELSE UNCHANGED serverVars
       /\ IF ok /\ ~r.isExamMode
          THEN /\ progress' = PatchProgress(progress, r.ruleId, r.status)
               /\ stats' = PatchStats(stats, r.progress, r.ruleId, r.status)
          ELSE UNCHANGED localVars
       /\ ev' = [op |-> "persist", ok |-> ok]
  /\ UNCHANGED <<sessionVars, swipeDirection, timers, fetchVars, nSwipes, sessionHist, nStarts, touchVars>>
  /\ UNCHANGED <<audioVars, resetFetches, authVars>>
  /\ memoProgress' = Memo(FALSE)

\* fetchProgress after the await: the response of GET /progress
ProgressResolve(ok) ==
  /\ progressFetches > 0
  /\ progressFetches' = progressFetches - 1
  /\ UNCHANGED progressAnswers
  /\ IF ok
     THEN progress' = ServerProgress
     ELSE UNCHANGED progress
  /\ ev' = Quiet
  /\ persists' = IF ok THEN Superseded(persists, 0) ELSE persists
  /\ UNCHANGED <<sessionVars, swipeDirection, timers, cardFetches,
                 statsFetches, stats, nSwipes, sessionHist, nStarts, touchVars, serverVars>>
  /\ UNCHANGED <<audioVars, resetFetches, authVars>>
  /\ memoProgress' = Memo(FALSE)

\* GET /progress reaches the backend, which reads what it holds; the answer
\* travels back on its own
ProgressServe ==
  /\ progressFetches > 0
  /\ progressFetches' = progressFetches - 1
  /\ progressAnswers' = Append(progressAnswers, ServerProgress)
  /\ ev' = Quiet
  /\ UNCHANGED <<sessionVars, swipeDirection, timers, persists, cardFetches,
                 statsFetches, localVars, nSwipes, sessionHist, nStarts,
                 touchVars, serverVars>>
  /\ UNCHANGED <<audioVars, resetFetches, authVars>>
  /\ memoProgress' = Memo(FALSE)

\* fetchProgress after the await, for an answer read earlier: setProgress(data)
ProgressDeliver(i) ==
  /\ i \in 1..Len(progressAnswers)
  /\ progressAnswers' = RemoveAt(progressAnswers, i)
  /\ progress' = progressAnswers[i]
  /\ ev' = [op |-> "progressAnswer"]
  /\ persists' = Superseded(persists, 0)
  /\ UNCHANGED <<sessionVars, swipeDirection, timers, cardFetches,
                 progressFetches, statsFetches, stats, nSwipes, sessionHist,
                 nStarts, touchVars, serverVars>>
  /\ UNCHANGED <<audioVars, resetFetches, authVars>>
  /\ memoProgress' = Memo(FALSE)

\* fetchStats after the await: the response of GET /stats
StatsResolve(ok) ==
  /\ statsFetches > 0
  /\ statsFetches' = statsFetches - 1
  /\ stats' = IF ok THEN ServerStats ELSE stats
  /\ ev' = Quiet
  /\ UNCHANGED <<sessionVars, swipeDirection, timers, persists, cardFetches,
                 progressFetches, progressAnswers, progress, nSwipes, sessionHist, nStarts,
                 touchVars, serverVars>>
  /\ UNCHANGED <<audioVars, resetFetches, authVars>>
  /\ memoProgress' = Memo(FALSE)

\* ------------------------------------------------------------------- touch
\* handleTouchStart
handleTouchStart(x) ==
  /\ CardShown
  /\ ~touching
  /\ touching' = TRUE
  /\ touchStartX' = x
  /\ dragX' = 0
  /\ ev' = Quiet
  /\ UNCHANGED <<sessionVars, swipeDirection, timers, persists, fetchVars,
                 nSwipes, sessionHist, nStarts, touchCurrentX, localVars,
                 serverVars>>
  /\ UNCHANGED <<audioVars, resetFetches, authVars>>
  /\ memoProgress' = Memo(FALSE)

\* handleTouchMove
handleTouchMove(x) ==
  /\ CardShown
  /\ touching
  /\ touchCurrentX' = x
  /\ dragX' = touchCurrentX' - touchStartX
  /\ ev' = Quiet
  /\ UNCHANGED <<sessionVars, swipeDirection, timers, persists, fetchVars,
                 nSwipes, sessionHist, nStarts, touchStartX, touching, localVars,
                 serverVars>>
  /\ UNCHANGED <<audioVars, resetFetches, authVars>>
  /\ memoProgress' = Memo(FALSE)

\* the comparison with the distance reached included
GestureDirection_Inclusive(diff) ==
  IF diff >= threshold THEN "right"
  ELSE IF diff <= 0 - threshold THEN "left"
  ELSE "none"

\* the if / else if / else of handleTouchEnd: the swipe a drag of diff commits
GestureDirection(diff) ==
  IF diff > threshold THEN "right"
  ELSE IF diff < 0 - threshold THEN "left"
  ELSE "none"

\* handleTouchEnd
handleTouchEnd ==
  /\ CardShown
  /\ touching
  /\ touching' = FALSE
  /\ LET diff == touchCurrentX - touchStartX IN
       /\ IF GestureDirection(diff) # "none"
          THEN handleSwipe(GestureDirection(diff)) /\ UNCHANGED dragX
          ELSE /\ dragX' = 0
               /\ UNCHANGED <<swipeDirection, timers, nSwipes, sessionHist>>
       /\ ev' = [op |-> "touchEnd", diff |-> diff]
  /\ touchStartX' = 0
  /\ touchCurrentX' = 0
  /\ UNCHANGED <<sessionVars, persists, fetchVars, nStarts,
                 localVars, serverVars>>
  /\ UNCHANGED <<audioVars, resetFetches, authVars>>
  /\ memoProgress' = Memo(FALSE)

\* ------------------------------------------------------------------- reset
MaxResets == 1       \* DELETE /progress/reset requests in flight at once

\* { known: [], unknown: [], total_known: 0, total_unknown: 0 }
ProgressEmpty ==
  [known |-> <<>>, unknown |-> <<>>, total_known |-> 0, total_unknown |-> 0]

\* HomeView renders the reset button
ResetShown ==
  /\ currentView = "home"
  /\ progress.total_known > 0 \/ progress.total_unknown > 0

\* resetProgress, confirmed, up to the await: the DELETE is sent
resetProgress ==
  /\ ResetShown
  /\ resetFetches < MaxResets
  /\ resetFetches' = resetFetches + 1
  /\ ev' = Quiet
  /\ UNCHANGED <<sessionVars, swipeDirection, timers, persists, fetchVars,
                 nSwipes, sessionHist, nStarts, touchVars, localVars, serverVars>>
  /\ UNCHANGED <<audioVars, authVars>>
  /\ memoProgress' = Memo(FALSE)

\* the backend clears the sets of the acting identity (DELETE /progress/reset)
ServerReset ==
  /\ srvKnown' = {}
  /\ srvUnknown' = {}

\* resetProgress after the await: the response of the DELETE.  ok: the
\* backend cleared the sets and answered with success; otherwise the request
\* failed.
ResetResolve(ok) ==
  /\ resetFetches > 0
  /\ resetFetches' = resetFetches - 1
  /\ IF ok
     THEN /\ ServerReset
          /\ progress' = ProgressEmpty
          /\ persists' = Superseded(persists, 0)
     ELSE UNCHANGED <<serverVars, progress, persists>>
  /\ ev' = [op |-> "reset", ok |-> ok]
  /\ UNCHANGED <<sessionVars, swipeDirection, timers, fetchVars, stats,
                 nSwipes, sessionHist, nStarts, touchVars>>
  /\ UNCHANGED <<audioVars, authVars>>
  /\ memoProgress' = Memo(FALSE)

\* ----------------------------------------------------------------- refresh
\* the JSON body of an answer with a non-success status
ErrorBody == [detail |-> "error"]

\* fetchProgress after the await: GET /progress is answered with a
\* non-success status and a JSON body.  There is no test of res.ok:
\* res.json() yields the body and setProgress stores it.
ProgressHttpError ==
  /\ progressFetches > 0
  /\ progressFetches' = progressFetches - 1
  /\ UNCHANGED progressAnswers
  /\ progress' = ErrorBody
  /\ ev' = [op |-> "httpError"]
  /\ UNCHANGED <<sessionVars, swipeDirection, timers, persists, cardFetches,
                 statsFetches, stats, nSwipes, sessionHist, nStarts, touchVars, serverVars>>
  /\ UNCHANGED <<audioVars, resetFetches, authVars>>
  /\ memoProgress' = Memo(FALSE)

\* fetchStats after the await: GET /stats is answered with a non-success
\* status and a JSON body, which setStats stores
StatsHttpError ==
  /\ statsFetches > 0
  /\ statsFetches' = statsFetches - 1
  /\ stats' = ErrorBody
  /\ ev' = [op |-> "httpError"]
  /\ UNCHANGED <<sessionVars, swipeDirection, timers, persists, cardFetches,
                 progressFetches, progressAnswers, progress, nSwipes, sessionHist, nStarts, touchVars,
                 serverVars>>
  /\ UNCHANGED <<audioVars, resetFetches, authVars>>
  /\ memoProgress' = Memo(FALSE)

\* HomeView: onViewStats={() => setCurrentView('stats')}
onViewStats ==
  /\ currentView = "home"
  /\ currentView' = "stats"
  /\ ev' = Quiet
  /\ UNCHANGED <<studyVars, audioVars>>

\* StatsView: onBack={() => setCurrentView('home')}
StatsBack ==
  /\ currentView = "stats"
  /\ currentView' = "home"
  /\ ev' = Quiet
  /\ UNCHANGED <<studyVars, audioVars>>

\* ------------------------------------------------------------------- audio
NumAudioCards == 3   \* cards in the answer of GET /audio/cards
MaxAudioFetches == 2 \* GET /audio/cards requests in flight at once
MaxShuffles == 2     \* presses of the shuffle button in one run

\* startIndex = null
NoStart == 0 - 1

\* GET /audio/cards: every card of the corpus, with or without audio; the
\* audio_url of card id is modelled by id, a missing one by 0
AudioLists ==
  {[i \in 1..NumAudioCards |->
      [id |-> i, has_audio |-> i \in S, audio_url |-> IF i \in S THEN i ELSE 0]]
   : S \in SUBSET (1..NumAudioCards)}

\* const playableCards = cards.filter(card => card.has_audio && card.audio_url)
PlayableOf(list) == SelectSeq(list, LAMBDA c : c.has_audio /\ c.audio_url # 0)
playableCards == PlayableOf(audioCards)

\* the <audio> element is rendered
AudioRendered ==
  /\ currentView = "audio"
  /\ ~isAudioLoading
  /\ ~audioError
  /\ Len(playableCards) > 0

\* AudioView: which of the loading notice, the inline error with its retry
\* button, the notice of no audio, and the player with the list is rendered
AudioScreen ==
  IF isAudioLoading THEN "loading"
  ELSE IF audioError THEN "error"
  ELSE IF Len(playableCards) = 0 THEN "empty"
  ELSE "list"

\* [queue[i], queue[j]] = [queue[j], queue[i]], indices from 0
Swap(queue, i, j) ==
  [queue EXCEPT ![i + 1] = queue[j + 1], ![j + 1] = queue[i + 1]]

\* the loop with the swap partner taken among the positions below i only
RECURSIVE FisherYates_BelowOnly(_, _, _)
FisherYates_BelowOnly(queue, i, draws) ==
  IF i <= 0 THEN queue
  ELSE FisherYates_BelowOnly(Swap(queue, i, draws[i] % i), i - 1, draws)

\* for (let i = queue.length - 1; i > 0; i -= 1) with
\* draws[i] = Math.floor(Math.random() * (i + 1))
RECURSIVE FisherYates(_, _, _)
FisherYates(queue, i, draws) ==
  IF i <= 0 THEN queue
  ELSE FisherYates(Swap(queue, i, draws[i]), i - 1, draws)

\* the outcomes of the random draws of one shuffle of length cards
Draws(length) ==
  {d \in [1..(length - 1) -> 0..(length - 1)] :
     \A i \in 1..(length - 1) : d[i] <= i}

\* buildShuffleQueue with the start index put in front of the whole queue
buildShuffleQueue_NoFilter(length, startIndex, draws) ==
  LET queue == FisherYates([idx \in 1..length |-> idx - 1], length - 1, draws)
  IN IF startIndex = NoStart \/ startIndex < 0 \/ startIndex >= length
     THEN queue
     ELSE <<startIndex>> \o queue

\* buildShuffleQueue(length, startIndex)
buildShuffleQueue(length, startIndex, draws) ==
  LET queue == FisherYates([idx \in 1..length |-> idx - 1], length - 1, draws)
  IN IF startIndex = NoStart \/ startIndex < 0 \/ startIndex >= length
     THEN queue
     ELSE <<startIndex>> \o FilterOut(queue, startIndex)

\* The <audio> element after the render a handler causes.  It is in the
\* document only while AudioRendered: one that enters the document with a
\* source starts to play (autoPlay), one whose src changes loads and plays
\* the new source, one that leaves the document is paused; stopped: the
\* handler paused it or its track has ended.
ElementPlaying(stopped) ==
  IF ~AudioRendered' THEN FALSE
  ELSE IF ~AudioRendered THEN currentSource' # 0
  ELSE IF currentSource' # currentSource THEN TRUE
  ELSE IF stopped THEN FALSE
  ELSE audioPlaying

\* fetchAudioCards up to the await
fetchAudioCards ==
  /\ audioFetches < MaxAudioFetches
  /\ audioFetches' = audioFetches + 1
  /\ audioLatest' = "pending"
  /\ isAudioLoading' = TRUE
  /\ audioError' = FALSE
  /\ UNCHANGED audioCards

\* openAudioMode; a new AudioView is mounted
openAudioMode ==
  /\ currentView = "home"
  /\ currentView' = "audio"
  /\ fetchAudioCards
  /\ ev' = Quiet
  /\ UNCHANGED <<studyVars, playerVars, nShuffles>>
  /\ cleanupAudio' = AudioRendered'
  /\ audioPlaying' = ElementPlaying(FALSE)

\* the teardown in which only the cleanup of the mount effect pauses the
\* element
AudioBack_OnlyCleanupPauses ==
  /\ currentView = "audio"
  /\ currentView' = "home"
  /\ audioCurrentIndex' = 0
  /\ currentSource' = 0
  /\ playMode' = "single"
  /\ shuffleQueue' = <<>>
  /\ shufflePosition' = 0 - 1
  /\ ev' = [op |-> "audioBack", playing |-> audioPlaying]
  /\ UNCHANGED <<studyVars, audioListVars, nShuffles>>
  /\ cleanupAudio' = FALSE
  /\ audioPlaying' = IF cleanupAudio THEN FALSE ELSE audioPlaying

\* AudioView: onBack={() => setCurrentView('home')}.  The AudioView is
\* unmounted: its state is gone, the cleanup of its mount effect pauses the
\* element it captured, and its <audio> element leaves the document.
AudioBack ==
  /\ currentView = "audio"
  /\ currentView' = "home"
  /\ audioCurrentIndex' = 0
  /\ currentSource' = 0
  /\ playMode' = "single"
  /\ shuffleQueue' = <<>>
  /\ shufflePosition' = 0 - 1
  /\ ev' = [op |-> "audioBack", playing |-> audioPlaying]
  /\ UNCHANGED <<studyVars, audioListVars, nShuffles>>
  /\ cleanupAudio' = FALSE
  /\ audioPlaying' = ElementPlaying(cleanupAudio)

\* AudioView: onReload={fetchAudioCards}
Reload ==
  /\ currentView = "audio"
  /\ fetchAudioCards
  /\ ev' = [op |-> "reload"]
  /\ UNCHANGED <<currentView, studyVars, playerVars, nShuffles>>
  /\ UNCHANGED cleanupAudio
  /\ audioPlaying' = ElementPlaying(FALSE)

\* fetchAudioCards after the await: the response of GET /audio/cards; not ok
\* is a network failure or a non-success status
AudioCardsResolve(ok, data) ==
  /\ audioFetches > 0
  /\ audioFetches' = audioFetches - 1
  /\ \E latest \in BOOLEAN :
       IF latest
       THEN /\ audioLatest = "pending"
            /\ audioLatest' = IF ok THEN "ok" ELSE "failed"
       ELSE /\ audioFetches > (IF audioLatest = "pending" THEN 1 ELSE 0)
            /\ UNCHANGED audioLatest
  /\ IF ok
     THEN audioCards' = data /\ UNCHANGED audioError
     ELSE audioError' = TRUE /\ UNCHANGED audioCards
  /\ isAudioLoading' = FALSE
  /\ ev' = [op |-> "audioCards", ok |-> ok]
  /\ UNCHANGED <<currentView, studyVars, playerVars, nShuffles>>
  /\ UNCHANGED cleanupAudio
  /\ audioPlaying' = ElementPlaying(FALSE)

\* playCard(index, mode): the updates it makes to the index, the source and
\* the mode, and, for a mode other than shuffle, to the queue
playCard(index, mode) ==
  IF index < 0 \/ index >= Len(playableCards)
  THEN /\ UNCHANGED <<audioCurrentIndex, currentSource, playMode>>
       /\ IF mode # "shuffle"
          THEN UNCHANGED <<shuffleQueue, shufflePosition>>
          ELSE TRUE
  ELSE /\ audioCurrentIndex' = index
       /\ currentSource' = playableCards[index + 1].audio_url
       /\ playMode' = mode
       /\ IF mode # "shuffle"
          THEN shuffleQueue' = <<>> /\ shufflePosition' = 0 - 1
          ELSE TRUE

\* audio list: onClick={() => playCard(index, 'single')}
PlaySingle(index) ==
  /\ AudioRendered
  /\ index \in 0..(Len(playableCards) - 1)
  /\ playCard(index, "single")
  /\ ev' = [op |-> "playSingle"]
  /\ UNCHANGED <<currentView, studyVars, audioListVars, nShuffles>>
  /\ UNCHANGED cleanupAudio
  /\ audioPlaying' = ElementPlaying(FALSE)

\* const hasCurrentSelection = Boolean(currentSource) && ...
hasCurrentSelection ==
  /\ currentSource # 0
  /\ audioCurrentIndex >= 0
  /\ audioCurrentIndex < Len(playableCards)

\* handlePlayAll
handlePlayAll ==
  /\ currentView = "audio"
  /\ Len(playableCards) > 0
  /\ playCard(IF hasCurrentSelection THEN audioCurrentIndex ELSE 0,
              "sequential")
  /\ ev' = [op |-> "playAll"]
  /\ UNCHANGED <<currentView, studyVars, audioListVars, nShuffles>>
  /\ UNCHANGED cleanupAudio
  /\ audioPlaying' = ElementPlaying(FALSE)

\* handlePlayShuffle; random is Math.floor(Math.random() * length)
handlePlayShuffle ==
  /\ currentView = "audio"
  /\ Len(playableCards) > 0
  /\ nShuffles < MaxShuffles
  /\ nShuffles' = nShuffles + 1
  /\ \E random \in 0..(Len(playableCards) - 1), draws \in Draws(Len(playableCards)) :
       LET startIndex == IF hasCurrentSelection THEN audioCurrentIndex
                         ELSE random
           queue == buildShuffleQueue(Len(playableCards), startIndex, draws)
       IN /\ shuffleQueue' = queue
          /\ shufflePosition' = 0
          /\ playCard(queue[1], "shuffle")
          /\ ev' = [op |-> "playShuffle", startIndex |-> startIndex]
  /\ UNCHANGED <<currentView, studyVars, audioListVars>>
  /\ UNCHANGED cleanupAudio
  /\ audioPlaying' = ElementPlaying(FALSE)

\* handlePause
handlePause ==
  /\ currentView = "audio"
  /\ playMode' = "single"
  /\ ev' = [op |-> "pause"]
  /\ UNCHANGED <<currentView, studyVars, audioListVars, nShuffles,
                 audioCurrentIndex, currentSource, shuffleQueue,
                 shufflePosition>>
  /\ UNCHANGED cleanupAudio
  /\ audioPlaying' = ElementPlaying(TRUE)

\* the sequential branch with a wrap to the first track
TrackEndSequential_Wrap ==
  IF audioCurrentIndex + 1 >= Len(playableCards)
  THEN playCard(0, "sequential")
  ELSE playCard(audioCurrentIndex + 1, "sequential")

\* handleTrackEnd, if (playMode === 'sequential')
TrackEndSequential ==
  IF audioCurrentIndex + 1 >= Len(playableCards)
  THEN /\ playMode' = "single"
       /\ UNCHANGED <<audioCurrentIndex, currentSource, shuffleQueue,
                      shufflePosition>>
  ELSE playCard(audioCurrentIndex + 1, "sequential")

\* the shuffle branch replaying the last entry when the queue is exhausted
TrackEndShuffle_NoRevert ==
  LET nextPosition == shufflePosition + 1 IN
    IF nextPosition < 0 \/ nextPosition >= Len(shuffleQueue)
    THEN UNCHANGED playerVars
    ELSE /\ shufflePosition' = nextPosition
         /\ UNCHANGED shuffleQueue
         /\ playCard(shuffleQueue[nextPosition + 1], "shuffle")

\* handleTrackEnd, if (playMode === 'shuffle')
TrackEndShuffle ==
  LET nextPosition == shufflePosition + 1 IN
    IF nextPosition < 0 \/ nextPosition >= Len(shuffleQueue)
    THEN /\ playMode' = "single"
         /\ UNCHANGED <<audioCurrentIndex, currentSource, shuffleQueue,
                        shufflePosition>>
    ELSE /\ shufflePosition' = nextPosition
         /\ UNCHANGED shuffleQueue
         /\ playCard(shuffleQueue[nextPosition + 1], "shuffle")

\* the end of a track in single mode playing the next card
TrackEndSingle_PlaysNext == playCard(audioCurrentIndex + 1, "single")

\* handleTrackEnd in single mode: neither if applies
TrackEndSingle == UNCHANGED playerVars

\* the play button of the controls of the <audio> element
NativePlay ==
  /\ AudioRendered
  /\ currentSource # 0
  /\ ~audioPlaying
  /\ audioPlaying' = TRUE
  /\ ev' = Quiet
  /\ UNCHANGED <<currentView, studyVars, audioListVars, playerVars, nShuffles,
                 cleanupAudio>>

\* handleTrackEnd: onEnded of the <audio> element
handleTrackEnd ==
  /\ AudioRendered
  /\ currentSource # 0
  /\ CASE playMode = "sequential" -> TrackEndSequential
       [] playMode = "shuffle" -> TrackEndShuffle
       [] OTHER -> TrackEndSingle
  /\ ev' = [op |-> "trackEnd"]
  /\ UNCHANGED <<currentView, studyVars, audioListVars, nShuffles>>
  /\ UNCHANGED cleanupAudio
  /\ audioPlaying' = ElementPlaying(TRUE)

\* -------------------------------------------------------------------- Next
\* The study session driven by buttons and keys, with every request.
Next ==
  \/ \E mode \in StartModes : StartFromHome(mode)
  \/ Restart
  \/ \E i \in 1..MaxStarts, ok \in BOOLEAN : CardsResolve(i, ok)
  \/ Back
  \/ \E d \in Directions : ButtonSwipe(d)
  \/ \E d \in Directions : handleKeyDown(d)
  \/ TimerFire
  \/ \E i \in 1..MaxSwipes, ok \in BOOLEAN : PersistResolve(i, ok)
  \/ \E ok \in BOOLEAN : ProgressResolve(ok)
  \/ \E ok \in BOOLEAN : StatsResolve(ok)

Spec == Init /\ [][Next]_vars

\* The page once both mount refreshes have been answered with success and
\* nothing else has happened: a state Spec reaches by ProgressResolve(TRUE)
\* and StatsResolve(TRUE) alone.  handleSwipe is still the callback of the
\* first render.
InitGesture ==
  /\ currentView = "home"
  /\ selectedMode = "none"
  /\ cards = <<>>
  /\ currentIndex = 0
  /\ \E st \in InitialStores : srvKnown = st.known /\ srvUnknown = st.unknown
  /\ progress = ServerProgress
  /\ stats = ServerStats
  /\ swipeDirection = "none"
  /\ isExamMode = FALSE
  /\ examResults = NoExamResults
  /\ dragX = 0
  /\ touchStartX = 0
  /\ touchCurrentX = 0
  /\ memoProgress = [known |-> <<>>, unknown |-> <<>>, total_known |-> NoTotal,
                     total_unknown |-> NoTotal]
  /\ timers = <<>>
  /\ persists = <<>>
  /\ cardFetches = <<>>
  /\ progressFetches = 0
  /\ progressAnswers = <<>>
  /\ statsFetches = 0
  /\ nSwipes = 0
  /\ sessionHist = NoSession
  /\ nStarts = 0
  /\ touching = FALSE
  /\ ev = Quiet
  /\ resetFetches = 0
  /\ audioCards = <<>>
  /\ isAudioLoading = FALSE
  /\ audioError = FALSE
  /\ audioFetches = 0
  /\ audioLatest = "none"
  /\ audioCurrentIndex = 0
  /\ currentSource = 0
  /\ playMode = "single"
  /\ shuffleQueue = <<>>
  /\ shufflePosition = 0 - 1
  /\ nShuffles = 0
  /\ audioPlaying = FALSE
  /\ cleanupAudio = FALSE
  /\ user = Anonymous
  /\ showLoginPrompt = FALSE
  /\ tgUser = NoTelegram
  /\ authFetches = 0

\* The study session driven by touch gestures.
NextGesture ==
  \/ \E mode \in StartModes : StartFromHome(mode)
  \/ \E i \in 1..MaxStarts, ok \in BOOLEAN : CardsResolve(i, ok)
  \/ \E x \in Coords : handleTouchStart(x)
  \/ \E x \in Coords : handleTouchMove(x)
  \/ handleTouchEnd
  \/ TimerFire
  \/ \E i \in 1..MaxSwipes, ok \in BOOLEAN : PersistResolve(i, ok)

SpecGesture == InitGesture /\ [][NextGesture]_vars

\* The audio view: the list of audio cards and the playback queue.
NextAudio ==
  \/ openAudioMode
  \/ AudioBack
  \/ Reload
  \/ \E ok \in BOOLEAN, data \in AudioLists : AudioCardsResolve(ok, data)
  \/ \E index \in 0..(NumAudioCards - 1) : PlaySingle(index)
  \/ handlePlayAll
  \/ handlePlayShuffle
  \/ handlePause
  \/ handleTrackEnd
  \/ NativePlay

SpecAudio == InitGesture /\ [][NextAudio]_vars

\* The audio view with every track played to its end.
SpecAudioFair == SpecAudio /\ WF_vars(handleTrackEnd)

\* The home view and the study session with the reset of the progress, on a
\* page that has been loaded.
NextHome ==
  \/ \E mode \in StartModes : StartFromHome(mode)
  \/ \E i \in 1..MaxStarts, ok \in BOOLEAN : CardsResolve(i, ok)
  \/ Back
  \/ \E d \in Directions : ButtonSwipe(d)
  \/ TimerFire
  \/ \E i \in 1..MaxSwipes, ok \in BOOLEAN : PersistResolve(i, ok)
  \/ resetProgress
  \/ \E ok \in BOOLEAN : ResetResolve(ok)

SpecHome == InitGesture /\ [][NextHome]_vars

\* Every timer runs and every request is answered.
SpecHomeFair ==
  /\ SpecHome
  /\ WF_vars(TimerFire)
  /\ WF_vars(\E i \in 1..MaxSwipes, ok \in BOOLEAN : PersistResolve(i, ok))

\* The refreshes made when the page is opened, with every answer they can
\* get, seen from the home view and the statistics view.
NextRefresh ==
  \/ \E ok \in BOOLEAN : ProgressResolve(ok)
  \/ \E ok \in BOOLEAN : StatsResolve(ok)
  \/ ProgressHttpError
  \/ StatsHttpError
  \/ onViewStats
  \/ StatsBack

SpecRefresh == Init /\ [][NextRefresh]_vars

\* ---------------------------------------------------------------- identity
MaxAuthFetches == 1      \* POST /auth/telegram requests in flight at once
MaxProgressFetches == 3  \* GET /progress requests in flight at once

\* getAuthHeaders() in a render whose user is u: the id carried by the
\* X-Telegram-User header, NoTelegram for no header
getAuthHeaders(u) ==
  IF u.telegram_id # NoTelegram THEN u.telegram_id ELSE tgUser

\* POST /auth/telegram answered with success: the stored user
AuthData == [id |-> "user", telegram_id |-> tgUser]

\* handleLogin, and authenticate up to its await; signed: initData holds the
\* user and hash parameters
handleLogin(signed) ==
  /\ currentView = "home"
  /\ user.id = "anonymous"
  /\ IF tgUser # NoTelegram /\ signed
     THEN /\ authFetches < MaxAuthFetches
          /\ authFetches' = authFetches + 1
     ELSE UNCHANGED authFetches
  /\ ev' = [op |-> "login"]
  /\ UNCHANGED <<user, showLoginPrompt, tgUser>>
  /\ UNCHANGED <<currentView, selectedMode, cards, currentIndex, isExamMode,
                 examResults, swipeDirection, timers, persists, fetchVars,
                 nSwipes, sessionHist, nStarts, touchVars, localVars,
                 serverVars, resetFetches, audioVars>>
  /\ memoProgress' = Memo(FALSE)

\* authenticate after the await: the response of POST /auth/telegram.  Its
\* fetchProgress runs in the closure of the render that handled the click,
\* where user is the anonymous one.
AuthResolve(ok) ==
  /\ authFetches > 0
  /\ authFetches' = authFetches - 1
  /\ IF ok
     THEN /\ progressFetches < MaxProgressFetches
          /\ user' = AuthData
          /\ showLoginPrompt' = FALSE
          /\ progressFetches' = progressFetches + 1
          /\ ev' = [op |-> "auth", header |-> getAuthHeaders(Anonymous)]
     ELSE /\ UNCHANGED <<user, showLoginPrompt, progressFetches>>
          /\ ev' = [op |-> "authFailed"]
  /\ UNCHANGED <<tgUser, progressAnswers, cardFetches, statsFetches>>
  /\ UNCHANGED <<currentView, selectedMode, cards, currentIndex, isExamMode,
                 examResults, swipeDirection, timers, persists,
                 nSwipes, sessionHist, nStarts, touchVars, localVars,
                 serverVars, resetFetches, audioVars>>
  /\ memoProgress' = Memo(FALSE)

\* handleLogout: its fetchProgress runs in the closure of the render that
\* handled the click, where user is still the one being logged out
handleLogout ==
  /\ currentView = "home"
  /\ user.id # "anonymous"
  /\ progressFetches < MaxProgressFetches
  /\ user' = Anonymous
  /\ showLoginPrompt' = FALSE
  /\ progressFetches' = progressFetches + 1
  /\ ev' = [op |-> "logout", header |-> getAuthHeaders(user)]
  /\ UNCHANGED <<tgUser, authFetches, progressAnswers, cardFetches,
                 statsFetches>>
  /\ UNCHANGED <<currentView, selectedMode, cards, currentIndex, isExamMode,
                 examResults, swipeDirection, timers, persists,
                 nSwipes, sessionHist, nStarts, touchVars, localVars,
                 serverVars, resetFetches, audioVars>>
  /\ memoProgress' = Memo(FALSE)

\* A study session on a page whose refresh of the progress is still under
\* way: the backend reads and the answer arrives as two steps, every request
\* is answered with success.
NextSync ==
  \/ \E mode \in StartModes : StartFromHome(mode)
  \/ \E i \in 1..MaxStarts : CardsResolve(i, TRUE)
  \/ Back
  \/ \E d \in Directions : ButtonSwipe(d)
  \/ TimerFire
  \/ \E i \in 1..MaxSwipes : PersistResolve(i, TRUE)
  \/ ProgressServe
  \/ \E i \in 1..2 : ProgressDeliver(i)
  \/ StatsResolve(TRUE)

SpecSync == Init /\ [][NextSync]_vars

\* Login and logout on the home view, in a browser or inside Telegram, with
\* the refreshes of the progress and of the stats they and the mount cause.
NextAuth ==
  \/ \E signed \in BOOLEAN : handleLogin(signed)
  \/ \E ok \in BOOLEAN : AuthResolve(ok)
  \/ handleLogout
  \/ \E ok \in BOOLEAN : ProgressResolve(ok)
  \/ \E ok \in BOOLEAN : StatsResolve(ok)

SpecAuth == InitAuth /\ [][NextAuth]_vars

\* ------------------------------------------------------------ properties
TargetSet(p, status) == IF status = "known" THEN p.known ELSE p.unknown
OppositeSet(p, status) == IF status = "known" THEN p.unknown ELSE p.known
Bucket(st, status) == IF status = "known" THEN st.known ELSE st.unknown

\* the step is the response, with outcome ok, of the i-th request in flight
PersistStep(i, ok) ==
  /\ i \in 1..Len(persists)
  /\ persists' = RemoveAt(persists, i)
  /\ ev' = [op |-> "persist", ok |-> ok]

\* the step is the timer callback of a swipe
TimerStep == timers # <<>> /\ timers' = Tail(timers)

\* C1: no card id is at once in the local known array and in the local
\* unknown array, whatever classifications and responses have happened.
C1_KnownUnknownDisjoint ==
  Range(progress.known) \cap Range(progress.unknown) = {}

\* C1 witness: card 1, loaded as known, has been moved to the unknown array
\* by the response of a persist request.
C1_Witness ==
  /\ ev = [op |-> "persist", ok |-> TRUE]
  /\ progress.known = <<>>
  /\ progress.unknown = <<NumCards, 1>>

\* C2 (as claimed): while the timer of a committed swipe is pending no
\* further swipe schedules another one, so at most one timer is pending.
C2_OneTimerPending == Len(timers) <= 1

\* C3 (as claimed): 0 <= position <= length(cards), and the session is
\* complete exactly when position = length(cards).
C3_PositionInBounds ==
  /\ 0 <= currentIndex
  /\ currentIndex <= Len(cards)
  /\ isComplete <=> currentIndex = Len(cards)

\* C4: a swipe requested while the session is complete changes nothing:
\* position, progress, stats, exam result, timers and requests in flight stay.
C4_SwipeAtCompleteNoOp ==
  [][ev' = [op |-> "swipeAtComplete"]
       => UNCHANGED <<sessionVars, localVars, serverVars, fetchVars,
                      swipeDirection, timers, persists, nSwipes>>]_vars

\* C4 witness: a swipe was requested on the completion screen of a session
\* that had cards.
C4_Witness ==
  /\ ev = [op |-> "swipeAtComplete"]
  /\ Len(cards) > 0
  /\ currentIndex = Len(cards)

\* C5 (as claimed): the response for a classification of a card that is
\* already in the local set of that direction raises neither the stats bucket
\* of the direction nor lowers not_started: the same classification made
\* twice counts once.
C5_CountedOnce ==
  [][\A i \in 1..Len(persists) :
       (/\ PersistStep(i, TRUE)
        /\ Includes(TargetSet(progress, persists[i].status), persists[i].ruleId))
       => /\ Bucket(stats', persists[i].status) = Bucket(stats, persists[i].status)
          /\ stats'.not_started = stats.not_started]_vars

\* C6 (as claimed): after a persist request has failed, the card of the
\* classification it carried (the latest one of that card, with no reload of
\* the progress since) is in the local target set and not in the opposite set.
C6_FailedPersistKeepsUpdate ==
  [][\A i \in 1..Len(persists) :
       (PersistStep(i, FALSE) /\ persists[i].latest)
       => /\ Includes(TargetSet(progress', persists[i].status), persists[i].ruleId)
          /\ ~Includes(OppositeSet(progress', persists[i].status),
                       persists[i].ruleId)]_vars

\* the step is a drag-end
TouchEndStep == touching /\ ~touching'

\* what a cancelled gesture leaves alone
CancelFrame ==
  /\ dragX' = 0
  /\ UNCHANGED <<sessionVars, localVars, serverVars, fetchVars, swipeDirection,
                 timers, persists, nSwipes>>

\* swipe(direction) is committed: its timer is scheduled
Committed(direction) ==
  /\ swipeDirection' = direction
  /\ timers' = Append(timers, SwipeTimer(direction))

C8_ExamTally ==
  (currentView = "study" /\ isExamMode /\ isComplete /\ examResults.present)
    => examResults.correct + examResults.incorrect = Len(cards)

\* C9: a swipe made in an exam session, and the timer callback it schedules,
\* change neither the local progress nor the local stats, and send nothing
\* to the backend.
C9_ExamSwipeLeavesProgress ==
  [][((isExamMode /\ nSwipes' # nSwipes)
        \/ (TimerStep /\ Head(timers).isExamMode))
       => UNCHANGED <<localVars, serverVars, persists>>]_vars

\* C9 witness: the timer of an exam swipe has run while the stats are loaded.
C9_Witness ==
  /\ isExamMode
  /\ examResults.present
  /\ currentIndex > 0
  /\ stats.present
  /\ timers = <<>>

\* C10 (as claimed): the response that applies a classification raises the
\* stats bucket of its direction by one exactly when the card was not in the
\* local set of that direction, and lowers not_started by one exactly when
\* the card was in neither local set.  Stated for the responses whose
\* request was made with the local progress as it still is.
C10_StatsPatchRule ==
  [][\A i \in 1..Len(persists) :
       (PersistStep(i, TRUE) /\ stats.present /\ persists[i].progress = progress)
       => LET r == persists[i]
              inTarget == Includes(TargetSet(progress, r.status), r.ruleId)
              inOther == Includes(OppositeSet(progress, r.status), r.ruleId)
          IN /\ Bucket(stats', r.status) =
                  Bucket(stats, r.status) + (IF inTarget THEN 0 ELSE 1)
             /\ stats'.not_started =
                  stats.not_started - (IF inTarget \/ inOther THEN 0 ELSE 1)]_vars

\* C11 (as claimed): the local stats, fetched with known + unknown +
\* not_started = total_cards, still satisfy it after every patch made for a
\* classification.
C11_StatsSumKept ==
  stats.present
    => stats.known + stats.unknown + stats.not_started = stats.total_cards

\* C12 (as claimed): a session that received no cards shows the empty
\* screen, never the completion screen with its restart button.
C12_EmptySessionShowsEmpty ==
  (currentView = "study" /\ Len(cards) = 0) => StudyScreen = "empty"

\* q holds each index of [0, n) exactly once and nothing else
IsPermutation(q, n) ==
  /\ Len(q) = n
  /\ \A k \in 0..(n - 1) : Cardinality({p \in 1..Len(q) : q[p] = k}) = 1

\* C13: for every length n >= 1, every start index (none, out of range or in
\* range) and every outcome of the draws, buildShuffleQueue returns a
\* permutation of [0, n) whose first element is the start index when that is
\* within [0, n); so does every queue the shuffle button builds.
C13_ShuffleQueuePermutation ==
  /\ \A n \in 1..NumAudioCards, s \in NoStart..NumAudioCards :
       \A d \in Draws(n) :
         LET q == buildShuffleQueue(n, s, d) IN
           /\ IsPermutation(q, n)
           /\ (0 <= s /\ s < n) => q[1] = s
  /\ [][ev'.op = "playShuffle"
          => /\ IsPermutation(shuffleQueue', Len(playableCards))
             /\ shuffleQueue'[1] = ev'.startIndex]_vars

\* C13 witness: the shuffle button has built a queue of three cards that
\* starts at the selected index 1 and is not in ascending order behind it.
C13_Witness ==
  /\ ev = [op |-> "playShuffle", startIndex |-> 1]
  /\ shuffleQueue = <<1, 2, 0>>
  /\ shufflePosition = 0

\* C14: in sequential mode the end of the track at index i < n - 1 moves to
\* i + 1 and stays sequential; the end of the track at n - 1 reverts the mode
\* to single and leaves the index at n - 1.
C14_SequentialTrackEnd ==
  [][(ev'.op = "trackEnd" /\ playMode = "sequential") =>
       LET n == Len(playableCards)
           i == audioCurrentIndex
       IN /\ i < n - 1 => (audioCurrentIndex' = i + 1 /\ playMode' = "sequential")
          /\ i = n - 1 => (audioCurrentIndex' = i /\ playMode' = "single")]_vars

\* C14 witness: the sequential queue over three cards has halted on the last
\* one.
C14_Witness ==
  /\ ev = [op |-> "trackEnd"]
  /\ Len(playableCards) = 3
  /\ audioCurrentIndex = 2
  /\ currentSource = 3
  /\ playMode = "single"
  /\ shuffleQueue = <<>>

C16_SingleClearsShuffle ==
  [][(playMode = "shuffle" /\ playMode' = "single")
       => (shuffleQueue' = <<>> /\ shufflePosition' = 0 - 1)]_vars

\* C17 (as claimed): while a source is selected, currentIndex is an index of
\* the playable cards and the source is the audio_url of the card there.
C17_IndexAndSourceValid ==
  (currentView = "audio" /\ currentSource # 0)
    => /\ audioCurrentIndex \in 0..(Len(playableCards) - 1)
       /\ currentSource = playableCards[audioCurrentIndex + 1].audio_url

\* the step is the response, with outcome ok, of a reset request
ResetStep(ok) ==
  /\ resetFetches' = resetFetches - 1
  /\ ev' = [op |-> "reset", ok |-> ok]

\* C18 (as claimed): the response of a confirmed reset leaves both local sets
\* empty and both totals zero, leaves nothing stored at the backend, and
\* issues a reload of the progress from the backend.
C18_ResetResyncs ==
  [][ResetStep(TRUE)
       => /\ progress' = ProgressEmpty
          /\ ServerProgress'.total_known = 0
          /\ ServerProgress'.total_unknown = 0
          /\ progressFetches' = progressFetches + 1]_vars

\* the step is back()
BackStep == currentView = "study" /\ currentView' = "home"

\* C19: back() removes no pending timer and no request in flight; the timer
\* of a swipe outside an exam sends the request of its card and direction;
\* and with every timer run and every request answered, all timers and
\* requests are eventually done.
C19_BackCancelsNothing ==
  /\ [][BackStep => UNCHANGED <<timers, persists, serverVars, localVars>>]_vars
  /\ [][(TimerStep /\ ~Head(timers).isExamMode)
          => /\ Len(persists') = Len(persists) + 1
             /\ persists'[Len(persists')].ruleId = Head(timers).card
             /\ persists'[Len(persists')].status =
                  Status(Head(timers).direction)]_vars
  /\ \A c \in Ids, d \in Directions :
       (\E k \in 1..Len(timers) :
          timers[k].card = c /\ timers[k].direction = d /\ ~timers[k].isExamMode)
       ~> (\E k \in 1..Len(persists) :
             persists[k].ruleId = c /\ persists[k].status = Status(d))
  /\ <>[](timers = <<>> /\ persists = <<>>)

\* C19 witness: back() during the 300 ms delay: the home view is shown while
\* the timer of a swipe outside an exam is pending.
C19_Witness ==
  /\ currentView = "home"
  /\ Len(timers) = 1
  /\ ~timers[1].isExamMode
  /\ persists = <<>>

\* the step is the answer of a GET /progress, of a GET /stats
ProgressAnswerStep == progressFetches' = progressFetches - 1
StatsAnswerStep == statsFetches' = statsFetches - 1

\* C20 (as claimed): the answer of a refresh either delivers what the
\* backend holds or, the refresh having failed (network failure or
\* non-success status), leaves the local progress and stats as they were.
C20_FailedRefreshKeepsState ==
  [][/\ (ProgressAnswerStep /\ progress' # ServerProgress)
          => progress' = progress
     /\ (StatsAnswerStep /\ stats' # ServerStats) => stats' = stats]_vars

\* the step is the answer, with outcome ok, of a GET /audio/cards
AudioAnswerStep(ok) ==
  /\ audioFetches' = audioFetches - 1
  /\ ev' = [op |-> "audioCards", ok |-> ok]

\* the step is a press of the reload (retry) button
ReloadStep == ev' = [op |-> "reload"] /\ audioFetches' = audioFetches + 1

\* C21 (as claimed): a failed fetch of the audio list ends with the error
\* shown (loading flag false, player and list hidden); a retry clears the
\* error and shows the loading state; and a fetch answered with success ends
\* with no error, in the list or in the notice of no audio.
C21_AudioErrorAndRetry ==
  [][/\ AudioAnswerStep(FALSE)
          => (~isAudioLoading' /\ audioError' /\ AudioScreen' = "error")
     /\ ReloadStep
          => (isAudioLoading' /\ ~audioError' /\ AudioScreen' = "loading")
     /\ AudioAnswerStep(TRUE)
          => (~audioError' /\ AudioScreen' \in {"list", "empty"})]_vars

C23_SingleTrackEndNoOp ==
  [][(ev'.op = "trackEnd" /\ playMode = "single")
       => (UNCHANGED playerVars /\ ~audioPlaying')]_vars

\* C23 witness: the track of the second of three cards, selected on its own,
\* has ended.
C23_Witness ==
  /\ ev = [op |-> "trackEnd"]
  /\ playMode = "single"
  /\ Len(playableCards) = 3
  /\ audioCurrentIndex = 1
  /\ currentSource = 2
  /\ shuffleQueue = <<>>
  /\ ~audioPlaying

\* C30 (as claimed): in shuffle mode the queue is a permutation of the
\* indices of the current playable cards, the position is within it and
\* currentIndex is the queue entry at the position; in every state the
\* position is at least -1 and below the length of the queue.
C30_ShuffleStateConsistent ==
  /\ playMode = "shuffle"
       => /\ IsPermutation(shuffleQueue, Len(playableCards))
          /\ shufflePosition \in 0..(Len(shuffleQueue) - 1)
          /\ audioCurrentIndex = shuffleQueue[shufflePosition + 1]
  /\ shufflePosition >= 0 - 1
  /\ shufflePosition < Len(shuffleQueue) \/ shuffleQueue = <<>>


\* the step is restart(): startStudy called from the completion screen
RestartStep ==
  /\ currentView = "study"
  /\ isComplete
  /\ nStarts' = nStarts + 1

\* C24 (as claimed): from the moment restart() is invoked the completion
\* screen and the exam result of the old session are no longer the state of
\* the session; and a card fetch that fails does not leave a complete session
\* on the screen.
C24_RestartDiscardsSession ==
  [][/\ RestartStep => (StudyScreen' # "complete" /\ ~examResults'.present)
     /\ (\E i \in 1..Len(cardFetches) :
            /\ cardFetches' = RemoveAt(cardFetches, i)
            /\ UNCHANGED <<cards, currentIndex>>
            /\ currentView = "study")
        => StudyScreen' # "complete"]_vars

\* C25 (as claimed): the offset that drag-end evaluates is the live offset
\* dragX of the current gesture; a touch that ends with no drag-move in
\* between (live offset 0) is cancelled, whatever its start coordinate and
\* whatever gestures preceded it.
C25_TapIsCancelled ==
  [][TouchEndStep =>
       /\ touchCurrentX - touchStartX = dragX
       /\ dragX = 0 => CancelFrame]_vars

\* C26 (as claimed): in a session that is no exam, as soon as the position
\* has advanced past a card the local progress holds the classification of
\* that card: the card is in the local set of the swipe's direction and not
\* in the other one, with no response of the persist request awaited.
C26_LocalUpdateSynchronous ==
  [][(TimerStep /\ ~Head(timers).isExamMode /\ Head(timers).card # 0)
       => LET t == Head(timers) IN
            /\ currentIndex' = currentIndex + 1
            /\ Includes(TargetSet(progress', Status(t.direction)), t.card)
            /\ ~Includes(OppositeSet(progress', Status(t.direction)), t.card)]_vars

\* the step is a classification made in an exam: the timer callback of a
\* swipe taken in exam mode, which also advances the position
ExamClassifyStep ==
  /\ TimerStep
  /\ Head(timers).isExamMode
  /\ currentIndex' = currentIndex + 1

\* earlier is a prefix of later
IsPrefix(earlier, later) ==
  /\ Len(earlier) <= Len(later)
  /\ \A i \in 1..Len(earlier) : later[i] = earlier[i]

\* C27, growth: a classification made in an exam appends exactly one entry to
\* details, leaves the earlier entries as they are and lowers neither
\* counter; and in every state length(details) = correct + incorrect.
C27_ExamResultsAppendOnly ==
  /\ [](Len(examResults.details) = examResults.correct + examResults.incorrect)
  /\ [][ExamClassifyStep
          => /\ Len(examResults'.details) = Len(examResults.details) + 1
             /\ IsPrefix(examResults.details, examResults'.details)
             /\ examResults'.correct >= examResults.correct
             /\ examResults'.incorrect >= examResults.incorrect]_vars

\* C27 (as claimed): the growth above, and no exam result exists in a
\* session that is no exam.
C27_ExamResultsOnlyInExam ==
  /\ C27_ExamResultsAppendOnly
  /\ []((currentView = "study" /\ ~isExamMode) => ~examResults.present)

\* C28: the score correct / (correct + incorrect) is never evaluated with a
\* zero denominator: whenever an exam result exists, and so whenever the
\* completion screen shows the score, correct + incorrect >= 1; an exam that
\* completes with no classification has no exam result and shows no score.
C28_ScoreDenominatorPositive ==
  /\ examResults.present => ScoreDenominator >= 1
  /\ ScoreShown => ScoreDenominator >= 1
  /\ (currentView = "study" /\ isComplete /\ ScoreDenominator = 0) => ~ScoreShown

\* C28 witness: the completion screen of an exam session that received no
\* card: no classification was made, no exam result exists, no score is shown.
C28_Witness ==
  /\ currentView = "study"
  /\ isExamMode
  /\ Len(cards) = 0
  /\ StudyScreen = "complete"
  /\ ~ScoreShown
  /\ nSwipes = 0

\* the totals of p are the sizes of its arrays and no array holds an id twice
TotalsMatchSets(p) ==
  /\ p.total_known = Len(p.known)
  /\ p.total_unknown = Len(p.unknown)
  /\ Cardinality(Range(p.known)) = Len(p.known)
  /\ Cardinality(Range(p.unknown)) = Len(p.unknown)

Orderings(n) == {q \in [1..n -> 0..(n - 1)] : IsPermutation(q, n)}

\* how many outcomes of the draws make buildShuffleQueue(n, s) return q
DrawCount(n, s, q) ==
  Cardinality({d \in Draws(n) : buildShuffleQueue(n, s, d) = q})

\* C31: the shuffle is unbiased.  For every length n >= 1, with no start
\* index each of the n! orderings of [0, n) is returned for exactly one
\* outcome of the draws (i from n - 1 down to 1, j in 0..i); with a start
\* index s each ordering that begins with s is returned for exactly n
\* outcomes, and no other ordering is returned.  The same holds for the
\* number of playable cards of every state of the audio view.
C31_ShuffleUnbiased ==
  \A n \in (1..NumAudioCards) \cup {Len(playableCards)} :
    /\ Cardinality(Draws(n)) = Cardinality(Orderings(n))
    /\ \A q \in Orderings(n) :
         /\ DrawCount(n, NoStart, q) = 1
         /\ \A s \in 0..(n - 1) :
              DrawCount(n, s, q) = IF q[1] = s THEN n ELSE 0

\* C31 witness: with three playable cards and card 1 selected, the shuffle
\* button has built the queue <<1, 2, 0>>, one of the two orderings behind
\* the start index, each of which three of the six outcomes produce.
C31_Witness ==
  /\ ev = [op |-> "playShuffle", startIndex |-> 1]
  /\ Len(playableCards) = NumAudioCards
  /\ shuffleQueue = <<1, 2, 0>>
  /\ DrawCount(NumAudioCards, 1, shuffleQueue) = NumAudioCards
  /\ DrawCount(NumAudioCards, NoStart, shuffleQueue) = 1

\* C32 (as claimed): a swipe committed in one session does not affect a
\* later one.  From the response that starts a session until a swipe is
\* committed in that session, the position is 0, no exam result exists, and
\* no timer callback advances the position, adds an exam result entry or
\* sends a classification.
C32_SessionsIsolated ==
  /\ []((currentView = "study" /\ ~sessionHist.swiped)
          => (currentIndex = 0 /\ ~examResults.present))
  /\ [][(currentView = "study" /\ ~sessionHist.swiped /\ TimerStep)
          => UNCHANGED <<currentIndex, examResults, persists>>]_vars

\* C33 (as claimed): whenever the study view is shown, selectedMode and
\* isExamMode are the mode with which the cards now held were requested,
\* also when start requests overlap or fail.
C33_ModeMatchesCards ==
  currentView = "study"
    => /\ selectedMode = sessionHist.mode
       /\ isExamMode = (sessionHist.mode = "exam")

\* no request is on its way to the backend and no answer on its way back
NothingInFlight ==
  /\ progressFetches = 0
  /\ progressAnswers = <<>>
  /\ statsFetches = 0
  /\ cardFetches = <<>>
  /\ persists = <<>>
  /\ resetFetches = 0

\* C34 (as claimed): in a run where no request fails, whenever nothing is in
\* flight the local progress holds what the backend stores for the acting
\* identity, whatever the order in which the answers of the progress fetches
\* and of the persist requests arrived.
C34_LocalEqualsServer ==
  (NothingInFlight /\ timers = <<>>)
    => /\ Range(progress.known) = srvKnown
       /\ Range(progress.unknown) = srvUnknown

\* C36 (as claimed): while the audio view is shown, the loading state is
\* shown whenever a fetch of the audio list is in flight, and once none is in
\* flight the error state is shown exactly when the most recently issued
\* fetch failed, also when a reload overlaps an earlier fetch.
C36_FetchStatusFollowsFetches ==
  currentView = "audio"
    => /\ audioFetches > 0 => AudioScreen = "loading"
       /\ audioFetches = 0 => (AudioScreen = "error" <=> audioLatest = "failed")

\* C35 (as claimed): the progress fetch that logout triggers carries no
\* authenticated identity, and neither does any request made in the renders
\* that follow the logout, where the user is the anonymous one.
C35_LogoutDropsIdentity ==
  [][ev'.op = "logout"
       => /\ ev'.header = NoTelegram
          /\ getAuthHeaders(user') = NoTelegram]_vars
=============================================================================
